---- MODULE Spec2Model ----
(***************************************************************************)
(* AES-CMAC (src/crypto/cmac.js): the doubling and padding helpers, the    *)
(* subkey derivation of CMAC(key), the MAC function it returns, and the    *)
(* three cipher backends CBC(key) selects between.  Buffers are modelled   *)
(* as byte sequences held in variables, so that in-place writes to a       *)
(* caller's Uint8Array are visible.                                        *)
(***************************************************************************)
EXTENDS Integers, Sequences, FiniteSets, TLC

\* cmac.js:30
blockLength == 16

Byte == 0..255

(***************************************************************************)
(* JavaScript's bit operators on the non-negative values the code uses.    *)
(***************************************************************************)
\* a sequence given as a function, evaluated element by element into a tuple
Strict(f) == f \o <<>>

\* a ^ b for two 4-bit values, tabulated
XorNibble ==
  <<
     << 0,  1,  2,  3,  4,  5,  6,  7,  8,  9, 10, 11, 12, 13, 14, 15>>,
     << 1,  0,  3,  2,  5,  4,  7,  6,  9,  8, 11, 10, 13, 12, 15, 14>>,
     << 2,  3,  0,  1,  6,  7,  4,  5, 10, 11,  8,  9, 14, 15, 12, 13>>,
     << 3,  2,  1,  0,  7,  6,  5,  4, 11, 10,  9,  8, 15, 14, 13, 12>>,
     << 4,  5,  6,  7,  0,  1,  2,  3, 12, 13, 14, 15,  8,  9, 10, 11>>,
     << 5,  4,  7,  6,  1,  0,  3,  2, 13, 12, 15, 14,  9,  8, 11, 10>>,
     << 6,  7,  4,  5,  2,  3,  0,  1, 14, 15, 12, 13, 10, 11,  8,  9>>,
     << 7,  6,  5,  4,  3,  2,  1,  0, 15, 14, 13, 12, 11, 10,  9,  8>>,
     << 8,  9, 10, 11, 12, 13, 14, 15,  0,  1,  2,  3,  4,  5,  6,  7>>,
     << 9,  8, 11, 10, 13, 12, 15, 14,  1,  0,  3,  2,  5,  4,  7,  6>>,
     <<10, 11,  8,  9, 14, 15, 12, 13,  2,  3,  0,  1,  6,  7,  4,  5>>,
     <<11, 10,  9,  8, 15, 14, 13, 12,  3,  2,  1,  0,  7,  6,  5,  4>>,
     <<12, 13, 14, 15,  8,  9, 10, 11,  4,  5,  6,  7,  0,  1,  2,  3>>,
     <<13, 12, 15, 14,  9,  8, 11, 10,  5,  4,  7,  6,  1,  0,  3,  2>>,
     <<14, 15, 12, 13, 10, 11,  8,  9,  6,  7,  4,  5,  2,  3,  0,  1>>,
     <<15, 14, 13, 12, 11, 10,  9,  8,  7,  6,  5,  4,  3,  2,  1,  0>>
  >>

\* a ^ b for two bytes, from the nibble table
XorByte(a, b) ==
  16 * XorNibble[(a \div 16) + 1][(b \div 16) + 1] + XorNibble[(a % 16) + 1][(b % 16) + 1]

\* the same for every pair of bytes, worked out once
XorTable == Strict([a \in 1..256 |-> Strict([b \in 1..256 |-> XorByte(a - 1, b - 1)])])

\* a ^ b for non-negative a, b
RECURSIVE Xor(_, _)
Xor(a, b) ==
  IF a < 256 /\ b < 256 THEN XorTable[a + 1][b + 1]
  ELSE 256 * Xor(a \div 256, b \div 256) + XorTable[(a % 256) + 1][(b % 256) + 1]

\* a & 0x80 for a byte-sized or 9-bit value: the bit of weight 128
And80(a) == IF (a \div 128) % 2 = 1 THEN 128 ELSE 0

\* a store into a Uint8Array element keeps the low 8 bits
ToUint8(v) == v % 256

(***************************************************************************)
(* The block cipher behind every backend: AES (FIPS-197) with a 128, 192   *)
(* or 256 bit key.  State bytes are kept in input order, byte r + 4c being *)
(* row r of column c.                                                      *)
(***************************************************************************)
SBox ==
  <<
      99, 124, 119, 123, 242, 107, 111, 197,  48,   1, 103,  43, 254, 215, 171, 118,
     202, 130, 201, 125, 250,  89,  71, 240, 173, 212, 162, 175, 156, 164, 114, 192,
     183, 253, 147,  38,  54,  63, 247, 204,  52, 165, 229, 241, 113, 216,  49,  21,
       4, 199,  35, 195,  24, 150,   5, 154,   7,  18, 128, 226, 235,  39, 178, 117,
       9, 131,  44,  26,  27, 110,  90, 160,  82,  59, 214, 179,  41, 227,  47, 132,
      83, 209,   0, 237,  32, 252, 177,  91, 106, 203, 190,  57,  74,  76,  88, 207,
     208, 239, 170, 251,  67,  77,  51, 133,  69, 249,   2, 127,  80,  60, 159, 168,
      81, 163,  64, 143, 146, 157,  56, 245, 188, 182, 218,  33,  16, 255, 243, 210,
     205,  12,  19, 236,  95, 151,  68,  23, 196, 167, 126,  61, 100,  93,  25, 115,
      96, 129,  79, 220,  34,  42, 144, 136,  70, 238, 184,  20, 222,  94,  11, 219,
     224,  50,  58,  10,  73,   6,  36,  92, 194, 211, 172,  98, 145, 149, 228, 121,
     231, 200,  55, 109, 141, 213,  78, 169, 108,  86, 244, 234, 101, 122, 174,   8,
     186, 120,  37,  46,  28, 166, 180, 198, 232, 221, 116,  31,  75, 189, 139, 138,
     112,  62, 181, 102,  72,   3, 246,  14,  97,  53,  87, 185, 134, 193,  29, 158,
     225, 248, 152,  17, 105, 217, 142, 148, 155,  30, 135, 233, 206,  85,  40, 223,
     140, 161, 137,  13, 191, 230,  66, 104,  65, 153,  45,  15, 176,  84, 187,  22
  >>

Rcon == <<1, 2, 4, 8, 16, 32, 64, 128, 27, 54>>

Sub(b) == SBox[b + 1]

xtime(b) == Xor((2 * b) % 256, IF b >= 128 THEN 27 ELSE 0)

XorSeq(x, y) == Strict([i \in 1..Len(x) |-> Xor(x[i], y[i])])

SubWord(w) == <<Sub(w[1]), Sub(w[2]), Sub(w[3]), Sub(w[4])>>

RotWord(w) == <<w[2], w[3], w[4], w[1]>>

\* the Nk words of the key schedule that follow the Nk words `prev`, the
\* n-th such group (n >= 1)
NextWords(prev, Nk, n) ==
  LET g  == SubWord(RotWord(prev[Nk]))
      t1 == XorSeq(prev[1], <<Xor(g[1], Rcon[n]), g[2], g[3], g[4]>>)
      t2 == XorSeq(prev[2], t1)
      t3 == XorSeq(prev[3], t2)
      t4 == XorSeq(prev[4], t3)
      t5 == XorSeq(prev[5], IF Nk > 6 THEN SubWord(t4) ELSE t4)
      t6 == XorSeq(prev[6], t5)
      t7 == XorSeq(prev[7], t6)
      t8 == XorSeq(prev[8], t7)
  IN  IF Nk = 4 THEN <<t1, t2, t3, t4>>
      ELSE IF Nk = 6 THEN <<t1, t2, t3, t4, t5, t6>>
      ELSE <<t1, t2, t3, t4, t5, t6, t7, t8>>

\* key schedule: at least `total` words w[0], w[1], ..., each of 4 bytes
RECURSIVE ExpandFrom(_, _, _, _, _)
ExpandFrom(w, prev, Nk, n, total) ==
  IF Len(w) >= total THEN w
  ELSE LET nw == NextWords(prev, Nk, n)
       IN  ExpandFrom(w \o nw, nw, Nk, n + 1, total)

\* the Nr + 1 round keys of a 16, 24 or 32 byte key, each of 16 bytes
KeyExpansion(key) ==
  LET Nk == Len(key) \div 4
      w0 == Strict([i \in 1..Nk |-> <<key[4*i - 3], key[4*i - 2], key[4*i - 1], key[4*i]>>])
      w  == ExpandFrom(w0, w0, Nk, 1, 4 * (Nk + 7))
  IN  Strict([r \in 1..(Nk + 7) |->
        Strict([j \in 1..16 |-> w[4*(r - 1) + ((j - 1) \div 4) + 1][((j - 1) % 4) + 1]])])

SubBytes(s) ==
  <<Sub(s[1]), Sub(s[2]), Sub(s[3]), Sub(s[4]), Sub(s[5]), Sub(s[6]), Sub(s[7]), Sub(s[8]),
    Sub(s[9]), Sub(s[10]), Sub(s[11]), Sub(s[12]), Sub(s[13]), Sub(s[14]), Sub(s[15]), Sub(s[16])>>

\* row r of the state moves r columns to the left
ShiftRows(s) ==
  <<s[1], s[6], s[11], s[16], s[5], s[10], s[15], s[4],
    s[9], s[14], s[3], s[8], s[13], s[2], s[7], s[12]>>

\* the column (a0, a1, a2, a3) times the MixColumns matrix
MixColumn(a0, a1, a2, a3) ==
  LET x0 == xtime(a0)
      x1 == xtime(a1)
      x2 == xtime(a2)
      x3 == xtime(a3)
  IN  <<Xor(Xor(x0, Xor(x1, a1)), Xor(a2, a3)),
        Xor(Xor(x1, Xor(x2, a2)), Xor(a3, a0)),
        Xor(Xor(x2, Xor(x3, a3)), Xor(a0, a1)),
        Xor(Xor(x3, Xor(x0, a0)), Xor(a1, a2))>>

MixColumns(s) ==
  MixColumn(s[1], s[2], s[3], s[4]) \o MixColumn(s[5], s[6], s[7], s[8])
  \o MixColumn(s[9], s[10], s[11], s[12]) \o MixColumn(s[13], s[14], s[15], s[16])

\* rounds r..Nr applied to the state s (s is evaluated before the next round)
RECURSIVE Rounds(_, _, _, _)
Rounds(s, rk, r, Nr) ==
  IF Len(s) # 16 THEN s
  ELSE IF r = Nr
    THEN XorSeq(ShiftRows(SubBytes(s)), rk[Nr + 1])
    ELSE Rounds(XorSeq(MixColumns(ShiftRows(SubBytes(s))), rk[r + 1]), rk, r + 1, Nr)

\* one block under an expanded key
AESEncryptBlock(rk, block) ==
  Rounds(XorSeq(block, rk[1]), rk, 1, Len(rk) - 1)

(***************************************************************************)
(* CBC chaining over the complete 16-byte blocks of pt, starting from iv.  *)
(***************************************************************************)
RECURSIVE CBCBlocks(_, _, _, _)
CBCBlocks(rk, prev, pt, out) ==
  IF Len(prev) # blockLength \/ Len(pt) < blockLength THEN out
  ELSE LET c == AESEncryptBlock(rk, XorSeq(SubSeq(pt, 1, blockLength), prev))
       IN  CBCBlocks(rk, c, SubSeq(pt, blockLength + 1, Len(pt)), out \o c)

\* PKCS#7 padding, which WebCrypto's AES-CBC always adds
Pkcs7(pt) ==
  LET n == blockLength - (Len(pt) % blockLength)
  IN  pt \o Strict([i \in 1..n |-> n])

\* typedArray.subarray(begin, end) for 0 <= begin, end
subarray(a, begin, end) ==
  LET e == IF end > Len(a) THEN Len(a) ELSE end
  IN  IF begin >= e THEN <<>> ELSE SubSeq(a, begin + 1, e)

\* typedArray.subarray(-n): the last n elements, or all of them if fewer
subarrayLast(a, n) ==
  IF Len(a) <= n THEN a ELSE SubSeq(a, Len(a) - n + 1, Len(a))

\* cmac.js:98-101: webCrypto.encrypt, its padding block cut off again
WebCryptoEncrypt(rk, iv, pt) ==
  LET ct == CBCBlocks(rk, iv, Pkcs7(pt), <<>>)
  IN  subarray(ct, 0, Len(ct) - blockLength)

\* cmac.js:105-110: cipher.update(pt) returns the complete blocks encrypted
NodeEncrypt(rk, iv, pt) == CBCBlocks(rk, iv, pt, <<>>)

\* cmac.js:113-115: AES_CBC.encrypt(pt, key, false, zeroBlock), no padding
AsmEncrypt(rk, iv, pt) == CBCBlocks(rk, iv, pt, <<>>)

\* the function cbc(pt) that CBC(key) returned, on the bytes handed to it
cbc(be, rk, iv, pt) ==
  IF be = "webCrypto" THEN WebCryptoEncrypt(rk, iv, pt)
  ELSE IF be = "node" THEN NodeEncrypt(rk, iv, pt)
  ELSE AsmEncrypt(rk, iv, pt)

\* key lengths importKey('raw', key, {name: 'AES-CBC'}) takes; 24 never gets
\* there (cmac.js:96)
WebCryptoKeyOk(key) == Len(key) \in {16, 32}

\* 'aes-' + (key.length * 8) + '-cbc' names a cipher of Node
NodeKeyOk(key) == Len(key) * 8 \in {128, 192, 256}

\* key sizes asmcrypto's AES takes
AsmKeyOk(key) == Len(key) \in {16, 24, 32}

\* the choice without the exception for 192 bit keys
SelectBackendNo192(web, node, key) ==
  IF web THEN "webCrypto"
  ELSE IF node THEN "node"
  ELSE "asm"

\* cmac.js:96, 103, 112: the backend CBC(key) picks
SelectBackend(web, node, key) ==
  IF web /\ Len(key) # 24 THEN "webCrypto"
  ELSE IF node THEN "node"
  ELSE "asm"

(***************************************************************************)
(* Buffers.  Every Uint8Array the code touches is a named cell of the      *)
(* heap; a helper that writes into its argument returns the heap after     *)
(* the call.                                                               *)
(***************************************************************************)
MsgBufs == {"msgA", "msgB", "msgC"}

Refs == {"zeroBlock", "padding", "padding2", "padded"} \cup MsgBufs

\* a[i] as an operand of ^: reading past the end gives undefined, which
\* counts as 0
At(a, i) == IF i >= 0 /\ i < Len(a) THEN a[i + 1] ELSE 0

\* cmac.js:43-45
RECURSIVE rightXorMutLoop(_, _, _, _)
rightXorMutLoop(h, data, padding, i) ==
  LET offset == Len(h[data]) - blockLength
      j      == i + offset
  IN  IF i >= blockLength THEN h
      ELSE rightXorMutLoop(
             IF j >= 0 /\ j < Len(h[data])
               THEN [h EXCEPT ![data][j + 1] = ToUint8(Xor(h[data][j + 1], At(h[padding], i)))]
               ELSE h,   \* a store outside the array is dropped
             data, padding, i + 1)

\* the arguments taken the other way round: the subkey is written
rightXorMutSwapped(h, data, padding) == rightXorMutLoop(h, padding, data, 0)

\* cmac.js:41-47
rightXorMut(h, data, padding) == rightXorMutLoop(h, data, padding, 0)

\* cmac.js:60-62
RECURSIVE mul2Loop(_, _, _)
mul2Loop(h, data, i) ==
  IF Len(h[data]) # blockLength \/ i >= 15 THEN h
  ELSE mul2Loop(
         [h EXCEPT ![data][i + 1] =
            ToUint8(Xor(2 * h[data][i + 1], IF And80(h[data][i + 2]) # 0 THEN 1 ELSE 0))],
         data, i + 1)

\* the doubling with the reduction constant left out
mul2NoReduction(h, data) == mul2Loop(h, data, 0)

\* cmac.js:58-65
mul2(h, data) ==
  LET t  == And80(h[data][1])
      h1 == mul2Loop(h, data, 0)
  IN  [h1 EXCEPT ![data][16] = ToUint8(Xor(2 * h1[data][16], IF t # 0 THEN 135 ELSE 0))]

\* the padded message built as in pad
Padded(m) ==
  LET n == Len(m) + (blockLength - (Len(m) % blockLength))
  IN  Strict([i \in 1..n |->
        IF i <= Len(m) THEN m[i] ELSE IF i = Len(m) + 1 THEN 128 ELSE 0])

\* pad with the first subkey in both branches
padOneSubkey(h, data, padding, padding2) ==
  IF Len(h[data]) % blockLength = 0
    THEN [heap |-> rightXorMut(h, data, padding), ret |-> data]
    ELSE [heap |-> rightXorMut([h EXCEPT !["padded"] = Padded(h[data])], "padded", padding),
          ret  |-> "padded"]

\* pad folding the padded message into the shared subkey buffer
padIntoSubkey(h, data, padding, padding2) ==
  IF Len(h[data]) % blockLength = 0
    THEN [heap |-> rightXorMut(h, data, padding), ret |-> data]
    ELSE [heap |-> rightXorMut([h EXCEPT !["padded"] = Padded(h[data])], padding2, "padded"),
          ret  |-> padding2]

\* cmac.js:67-78: the heap after the call and the buffer returned
pad(h, data, padding, padding2) ==
  IF Len(h[data]) % blockLength = 0
    THEN [heap |-> rightXorMut(h, data, padding), ret |-> data]
    ELSE [heap |-> rightXorMut([h EXCEPT !["padded"] = Padded(h[data])], "padded", padding2),
          ret  |-> "padded"]

\* typedArray.slice(): a copy of src in the cell dst
slice(h, src, dst) == [h EXCEPT ![dst] = h[src]]

\* the second doubling done on padding itself, no copy taken
DerivePadding2NoSlice(h) ==
  LET h1 == mul2(h, "padding")
  IN  [h1 EXCEPT !["padding2"] = h1["padding"]]

\* cmac.js:87
DerivePadding2(h) == mul2(slice(h, "padding", "padding2"), "padding2")

(***************************************************************************)
(* Inputs: the keys of NIST SP 800-38A (the first is RFC 4493's), two keys *)
(* of a length AES does not have, and prefixes of the RFC 4493 message.    *)
(***************************************************************************)
Key128 == <<43, 126, 21, 22, 40, 174, 210, 166, 171, 247, 21, 136, 9, 207, 79, 60>>

Key192 ==
  <<142, 115, 176, 247, 218, 14, 100, 82, 200, 16, 243, 43, 128, 144, 121, 229,
    98, 248, 234, 210, 82, 44, 107, 123>>

Key256 ==
  <<96, 61, 235, 16, 21, 202, 113, 190, 43, 115, 174, 240, 133, 125, 119, 129,
    31, 53, 44, 7, 59, 97, 8, 215, 45, 152, 16, 163, 9, 20, 223, 244>>

Keys == {Key128, Key192, Key256, SubSeq(Key256, 1, 10), SubSeq(Key256, 1, 20)}

Message ==
  <<107, 193, 190, 226, 46, 64, 159, 150, 233, 61, 126, 17, 115, 147, 23, 42,
    174, 45, 138, 87, 30, 3, 172, 156, 158, 183, 111, 172, 69, 175, 142, 81>>

\* the callers' message buffers: empty, one block, one byte more
InitialMessage ==
  [msgA |-> <<>>,
   msgB |-> SubSeq(Message, 1, 16),
   msgC |-> SubSeq(Message, 1, 17)]

\* most MAC function calls made in one behaviour
MaxCalls == 2

Zeros == Strict([i \in 1..blockLength |-> 0])

VARIABLES
  webCrypto,   \* util.getWebCryptoAll() is truthy
  nodeCrypto,  \* util.getNodeCrypto() is truthy
  key,         \* the key given to CMAC(key)
  pc,          \* where CMAC(key) is
  backend,     \* the backend behind the function CBC(key) returned
  rk,          \* the AES key schedule of the key that function holds
  heap,        \* the contents of every buffer
  L,           \* what cbc(zeroBlock) resolved to, before mul2 wrote into it
  derived,     \* the subkeys as they were when CMAC(key) returned
  calls,       \* the MAC function's calls, in the order they were made
  error,       \* what CMAC(key) rejected with
  unit         \* a helper called on its own: which, and the heap before

vars == <<webCrypto, nodeCrypto, key, pc, backend, rk, heap, L, derived, calls, error, unit>>

\* what no step of CMAC(key) or of the MAC function changes
env == <<webCrypto, nodeCrypto, key, unit>>

\* cmac.js:80 and the callers' buffers
InitialHeap ==
  [r \in Refs |->
     IF r = "zeroBlock" THEN Zeros
     ELSE IF r \in MsgBufs THEN InitialMessage[r]
     ELSE <<>>]

Init ==
  /\ webCrypto \in BOOLEAN
  /\ nodeCrypto \in BOOLEAN
  /\ key \in Keys
  /\ pc = "CBC"
  /\ backend = "none"
  /\ rk = <<>>
  /\ heap = InitialHeap
  /\ L = <<>>
  /\ derived = <<>>
  /\ calls = <<>>
  /\ error = "none"
  /\ unit = [fn |-> "none"]

(***************************************************************************)
(* CMAC(key), cmac.js:82-93                                                *)
(***************************************************************************)
\* cmac.js:83, 95-116: await CBC(key).  importKey rejects a key it cannot
\* take; the other two backends look at the key only when they encrypt.
AwaitCBC ==
  /\ pc = "CBC"
  /\ LET be == SelectBackend(webCrypto, nodeCrypto, key)
     IN  IF be = "webCrypto" /\ ~WebCryptoKeyOk(key)
           THEN /\ pc' = "rejected"
                /\ error' = "InvalidKeyLength"
                /\ UNCHANGED <<backend, rk>>
           ELSE /\ pc' = "cbc"
                /\ backend' = be
                /\ rk' = IF AsmKeyOk(key) THEN KeyExpansion(key) ELSE <<>>
                /\ UNCHANGED error
  /\ UNCHANGED <<env, heap, L, derived, calls>>

\* the key check of the backend's encryption
CipherKeyOk(be, k) ==
  IF be = "webCrypto" THEN WebCryptoKeyOk(k)
  ELSE IF be = "node" THEN NodeKeyOk(k)
  ELSE AsmKeyOk(k)

\* cmac.js:86: await cbc(zeroBlock); the block it resolves to is the buffer
\* that mul2 then doubles in place and that stays `padding`
AwaitCbcZero ==
  /\ pc = "cbc"
  /\ IF CipherKeyOk(backend, key)
       THEN /\ pc' = "mul2"
            /\ L' = cbc(backend, rk, heap["zeroBlock"], heap["zeroBlock"])
            /\ heap' = [heap EXCEPT !["padding"] = L']
            /\ UNCHANGED error
       ELSE /\ pc' = "rejected"
            /\ error' = "InvalidKeyLength"
            /\ UNCHANGED <<heap, L>>
  /\ UNCHANGED <<env, backend, rk, derived, calls>>

\* cmac.js:86: padding = mul2(...)
Mul2Padding ==
  /\ pc = "mul2"
  /\ heap' = mul2(heap, "padding")
  /\ pc' = "slice"
  /\ UNCHANGED <<env, backend, rk, L, derived, calls, error>>

\* cmac.js:87: padding2 = mul2(padding.slice())
Mul2Padding2 ==
  /\ pc = "slice"
  /\ heap' = DerivePadding2(heap)
  /\ pc' = "return"
  /\ UNCHANGED <<env, backend, rk, L, derived, calls, error>>

\* cmac.js:89-92: the MAC function goes to the caller
ReturnMac ==
  /\ pc = "return"
  /\ pc' = "prepared"
  /\ derived' = <<heap["padding"], heap["padding2"]>>
  /\ UNCHANGED <<env, backend, rk, heap, L, calls, error>>

(***************************************************************************)
(* The MAC function, cmac.js:89-92                                         *)
(***************************************************************************)
\* buffers whose contents differ between two heaps
Written(h0, h1) == {r \in Refs : h0[r] # h1[r]}

\* cmac.js:91 up to the await: pad(data, padding, padding2) runs and cbc is
\* called on what it returned.  Each backend takes its input and the iv as
\* they are at the call (Node and asm.js encrypt before they return,
\* WebCrypto copies), and the padded buffer has no other holder.
Invoke(data) ==
  /\ pc = "prepared"
  /\ Len(calls) < MaxCalls
  /\ LET r == pad(heap, data, "padding", "padding2")
     IN  /\ heap' = [r.heap EXCEPT !["padded"] = <<>>]
         /\ calls' = Append(calls,
              [data   |-> data,
               before |-> heap[data],
               pt     |-> r.heap[r.ret],
               iv     |-> r.heap["zeroBlock"],
               wrote  |-> Written(heap, r.heap) \ {"padded"},
               alone  |-> \A i \in 1..Len(calls) : calls[i].state = "done",
               state  |-> "await",
               tag    |-> <<>>])
  /\ UNCHANGED <<env, pc, backend, rk, L, derived, error>>

\* cmac.js:91 after the await: the last 16 bytes of the ciphertext
MacOf(be, k, iv, pt) == subarrayLast(cbc(be, k, iv, pt), blockLength)

Resolve(i) ==
  /\ calls[i].state = "await"
  /\ calls' = [calls EXCEPT ![i].state = "done",
                            ![i].tag = MacOf(backend, rk, calls[i].iv, calls[i].pt)]
  /\ UNCHANGED <<env, pc, backend, rk, heap, L, derived, error>>

Next ==
  \/ AwaitCBC
  \/ AwaitCbcZero
  \/ Mul2Padding
  \/ Mul2Padding2
  \/ ReturnMac
  \/ \E data \in MsgBufs : Invoke(data)
  \/ \E i \in 1..Len(calls) : Resolve(i)

Spec == Init /\ [][Next]_vars

(***************************************************************************)
(* The helpers on their own: mul2 on blocks and pad on messages drawn from *)
(* bounded sets.                                                           *)
(***************************************************************************)
\* longest message given to pad
MaxMsgLen == 33

TestBytes == {0, 1, 127, 128, 255}

\* blocks that are 0x00 or 0xff throughout except for one byte
TestBlocks ==
  {Strict([i \in 1..blockLength |-> IF i = at THEN v ELSE fill]) :
     at \in 1..blockLength, v \in TestBytes, fill \in {0, 255}}

\* blocks used as subkeys under pad: K1 and K2 of RFC 4493, and zero
TestSubkeys ==
  {<<251, 238, 214, 24, 53, 113, 51, 102, 124, 133, 224, 143, 114, 54, 168, 222>>,
   <<247, 221, 172, 48, 106, 226, 102, 204, 249, 11, 193, 30, 228, 109, 81, 59>>,
   Zeros}

TestMessage(n) == Strict([i \in 1..n |-> (37 * i + 11) % 256])

UnitHeap(k1, k2, m) ==
  [InitialHeap EXCEPT !["padding"] = k1, !["padding2"] = k2, !["msgA"] = m,
                      !["msgB"] = <<>>, !["msgC"] = <<>>]

UnitInit ==
  /\ webCrypto = FALSE
  /\ nodeCrypto = FALSE
  /\ key = <<>>
  /\ pc = "unit"
  /\ backend = "none"
  /\ rk = <<>>
  /\ L = <<>>
  /\ derived = <<>>
  /\ calls = <<>>
  /\ error = "none"
  /\ unit = [fn |-> "none"]
  /\ \/ \E b \in TestBlocks : heap = UnitHeap(b, Zeros, <<>>)
     \/ \E k1 \in TestSubkeys, k2 \in TestSubkeys, n \in 0..MaxMsgLen :
          heap = UnitHeap(k1, k2, TestMessage(n))

\* mul2(padding)
CallMul2 ==
  /\ unit.fn = "none"
  /\ pc = "unit"
  /\ heap' = mul2(heap, "padding")
  /\ unit' = [fn |-> "mul2", h0 |-> heap, ret |-> "padding"]
  /\ UNCHANGED <<webCrypto, nodeCrypto, key, pc, backend, rk, L, derived, calls, error>>

\* pad(msgA, padding, padding2)
CallPad ==
  /\ unit.fn = "none"
  /\ pc = "unit"
  /\ LET r == pad(heap, "msgA", "padding", "padding2")
     IN  /\ heap' = r.heap
         /\ unit' = [fn |-> "pad", h0 |-> heap, ret |-> r.ret]
  /\ UNCHANGED <<webCrypto, nodeCrypto, key, pc, backend, rk, L, derived, calls, error>>

UnitNext == CallMul2 \/ CallPad

UnitSpec == UnitInit /\ [][UnitNext]_vars

(***************************************************************************)
(* Reference definitions the properties are stated with.  They work on     *)
(* single bits and use none of the operators above.                        *)
(***************************************************************************)
Pow2(k) == IF k = 0 THEN 1 ELSE IF k = 1 THEN 2 ELSE IF k = 2 THEN 4
           ELSE IF k = 3 THEN 8 ELSE IF k = 4 THEN 16 ELSE IF k = 5 THEN 32
           ELSE IF k = 6 THEN 64 ELSE 128

BitOf(b, k) == (b \div Pow2(k)) % 2

XorRef(a, b) ==
  ((BitOf(a, 0) + BitOf(b, 0)) % 2) + 2 * ((BitOf(a, 1) + BitOf(b, 1)) % 2)
  + 4 * ((BitOf(a, 2) + BitOf(b, 2)) % 2) + 8 * ((BitOf(a, 3) + BitOf(b, 3)) % 2)
  + 16 * ((BitOf(a, 4) + BitOf(b, 4)) % 2) + 32 * ((BitOf(a, 5) + BitOf(b, 5)) % 2)
  + 64 * ((BitOf(a, 6) + BitOf(b, 6)) % 2) + 128 * ((BitOf(a, 7) + BitOf(b, 7)) % 2)

\* the 128 bits of a block, most significant first
Bits(block) ==
  Strict([k \in 1..128 |-> BitOf(block[((k - 1) \div 8) + 1], 7 - ((k - 1) % 8))])

\* the block whose bits are bits
FromBits(bits) ==
  Strict([i \in 1..blockLength |->
     128 * bits[8*i - 7] + 64 * bits[8*i - 6] + 32 * bits[8*i - 5] + 16 * bits[8*i - 4]
     + 8 * bits[8*i - 3] + 4 * bits[8*i - 2] + 2 * bits[8*i - 1] + bits[8*i]])

\* x^7 + x^2 + x + 1 in the low bits: 0x87
ReductionBits == {121, 126, 127, 128}

\* the block shifted left by one bit, reduced if the top bit fell off
Double128(block) ==
  LET b == Bits(block)
      s == [k \in 1..128 |-> IF k < 128 THEN b[k + 1] ELSE 0]
  IN  FromBits(Strict([k \in 1..128 |->
        IF b[1] = 1 /\ k \in ReductionBits THEN 1 - s[k] ELSE s[k]]))

\* m with the block k xored into its last 16 bytes
XorIntoTail(m, k) ==
  [j \in 1..Len(m) |->
     IF j > Len(m) - blockLength
       THEN XorRef(m[j], k[j - (Len(m) - blockLength)])
       ELSE m[j]]

\* m, one 0x80 byte, and zero bytes up to the next multiple of 16
Extended(m) ==
  [j \in 1..(((Len(m) \div blockLength) + 1) * blockLength) |->
     IF j <= Len(m) THEN m[j] ELSE IF j = Len(m) + 1 THEN 128 ELSE 0]

SameSeq(a, b) ==
  /\ Len(a) = Len(b)
  /\ \A j \in 1..Len(a) : a[j] = b[j]

IsDone(i) == calls[i].state = "done"

(***************************************************************************)
(* C1.  pad of the empty message returns one block, 0x80 and fifteen 0x00  *)
(* bytes xored with K2, and does not take the block-aligned branch.        *)
(* The code takes the aligned branch for length 0 and returns the empty    *)
(* buffer.                                                                 *)
(***************************************************************************)
C1_EmptyMessagePadded ==
  (unit.fn = "pad" /\ unit.h0["msgA"] = <<>>) =>
     /\ unit.ret = "padded"
     /\ SameSeq(heap[unit.ret], XorIntoTail(Extended(<<>>), unit.h0["padding2"]))

(***************************************************************************)
(* C2.  Every tag the MAC function returns has exactly 16 bytes, whatever  *)
(* the message length.  Fails for the empty message (see C1).              *)
(***************************************************************************)
C2_TagIs16Bytes ==
  \A i \in 1..Len(calls) : IsDone(i) => Len(calls[i].tag) = blockLength

(***************************************************************************)
(* C3.  After a call of the MAC function the caller's message buffer holds *)
(* what it held before the call.  Fails for a message of 16, 32, ... bytes:*)
(* pad xors K1 into the caller's buffer itself.                            *)
(***************************************************************************)
C3_MessageReadOnly ==
  \A i \in 1..Len(calls) :
     (IsDone(i) /\ \A j \in (i + 1)..Len(calls) : calls[j].data # calls[i].data)
        => heap[calls[i].data] = calls[i].before

(***************************************************************************)
(* C4.  Two calls in a row, the second made after the first returned, with *)
(* the same buffer give the same tag.  Fails for a message of 16, 32, ...  *)
(* bytes, because the first call changed the buffer (see C3).              *)
(***************************************************************************)
C4_Deterministic ==
  \A i \in 1..(Len(calls) - 1) :
     (/\ IsDone(i) /\ IsDone(i + 1)
      /\ calls[i + 1].alone
      /\ calls[i].data = calls[i + 1].data)
        => calls[i].tag = calls[i + 1].tag

(***************************************************************************)
(* C5.  CMAC(key) hands out a MAC function for keys of 16, 24 and 32 bytes *)
(* on every backend, and for any other key it rejects with the key length  *)
(* error before returning, so no MAC function exists for such a key and no *)
(* call of one is ever made.                                               *)
(***************************************************************************)
C5_KeySizeCoverage ==
  IF Len(key) \in {16, 24, 32}
    THEN /\ pc # "rejected"
         /\ error = "none"
         /\ pc = "cbc" => CipherKeyOk(backend, key)
    ELSE /\ pc \in {"CBC", "cbc", "rejected"}
         /\ calls = <<>>
         /\ (pc = "rejected") = (error = "InvalidKeyLength")
         /\ pc = "cbc" => ~CipherKeyOk(backend, key)

C5_Witness ==
  /\ pc = "rejected"
  /\ backend = "node"
  /\ Len(key) = 20
  /\ error = "InvalidKeyLength"

(***************************************************************************)
(* C6.  Once CMAC(key) has returned, the two subkey buffers hold the       *)
(* values they had at that moment, whatever calls are made or in flight.   *)
(***************************************************************************)
C6_SubkeysNeverMutated ==
  pc = "prepared" => <<heap["padding"], heap["padding2"]>> = derived

C6_Witness ==
  /\ pc = "prepared"
  /\ Len(calls) = 2
  /\ calls[1].data = "msgB" /\ IsDone(1)
  /\ calls[2].data = "msgC" /\ calls[2].state = "await"
  /\ heap["msgB"] # InitialMessage["msgB"]
  /\ derived[1] = <<251, 238, 214, 24, 53, 113, 51, 102, 124, 133, 224, 143, 114, 54, 168, 222>>

(***************************************************************************)
(* C7.  pad of a non-empty message: of 16, 32, ... bytes, the same length  *)
(* with K1 xored into the last 16 bytes and the bytes before them kept;    *)
(* of any other length, the message, 0x80 and zeros up to the next         *)
(* multiple of 16, with K2 xored into the last 16 bytes and the bytes      *)
(* before them kept.                                                       *)
(***************************************************************************)
C7_PadBoundary ==
  (unit.fn = "pad" /\ Len(unit.h0["msgA"]) > 0) =>
     LET m   == unit.h0["msgA"]
         out == heap[unit.ret]
     IN  IF Len(m) % blockLength = 0
           THEN /\ Len(out) = Len(m)
                /\ SameSeq(out, XorIntoTail(m, unit.h0["padding"]))
           ELSE /\ Len(out) = ((Len(m) \div blockLength) + 1) * blockLength
                /\ SameSeq(out, XorIntoTail(Extended(m), unit.h0["padding2"]))

C7_Witness ==
  /\ unit.fn = "pad"
  /\ Len(unit.h0["msgA"]) = 32
  /\ unit.h0["padding"] # Zeros
  /\ unit.h0["padding2"] # unit.h0["padding"]
  /\ SubSeq(heap[unit.ret], 1, 16) = SubSeq(unit.h0["msgA"], 1, 16)
  /\ SubSeq(heap[unit.ret], 17, 32) # SubSeq(unit.h0["msgA"], 17, 32)

(***************************************************************************)
(* C8.  mul2 returns the block shifted left by one bit as a 128-bit        *)
(* big-endian number, every byte in 0..255, with 0x87 xored into the last  *)
(* byte exactly when the bit shifted out was 1; zero doubles to zero.      *)
(***************************************************************************)
C8_DoublingCorrect ==
  unit.fn = "mul2" =>
     LET in  == unit.h0["padding"]
         out == heap["padding"]
     IN  /\ Len(out) = blockLength
         /\ \A i \in 1..blockLength : out[i] \in Byte
         /\ SameSeq(out, Double128(in))
         /\ in = Zeros => out = Zeros

C8_Witness ==
  /\ unit.fn = "mul2"
  /\ unit.h0["padding"] = <<128, 0, 0, 0, 0, 0, 0, 0, 0, 0, 0, 0, 0, 0, 0, 0>>
  /\ heap["padding"] = <<0, 0, 0, 0, 0, 0, 0, 0, 0, 0, 0, 0, 0, 0, 0, 135>>

(***************************************************************************)
(* C9.  Calls of the MAC function may overlap.  Each returns the tag the   *)
(* MAC function returns for that message when nothing else is going on,    *)
(* and a call given a buffer of its own writes no buffer that another      *)
(* call reads: not the subkeys, not the zero block, not the other call's   *)
(* message.                                                                *)
(***************************************************************************)
\* the tag for message m from the subkeys as derived, with no other call
TagAlone(m) ==
  LET h == [InitialHeap EXCEPT !["padding"] = derived[1], !["padding2"] = derived[2],
                               !["msgA"] = m]
      r == pad(h, "msgA", "padding", "padding2")
  IN  MacOf(backend, rk, Zeros, r.heap[r.ret])

ReadBy(j) == {calls[j].data, "padding", "padding2", "zeroBlock"}

C9_ConcurrentUse ==
  \A i \in 1..Len(calls) :
     /\ IsDone(i) => calls[i].tag = TagAlone(calls[i].before)
     /\ \A j \in 1..Len(calls) :
          (j # i /\ calls[j].data # calls[i].data) => calls[i].wrote \cap ReadBy(j) = {}

C9_Witness ==
  /\ Len(calls) = 2
  /\ key = Key128
  /\ calls[1].data = "msgC" /\ calls[2].data = "msgB"
  /\ ~calls[2].alone
  /\ IsDone(1) /\ IsDone(2)
  /\ calls[1].wrote = {} /\ calls[2].wrote = {"msgB"}
  /\ calls[2].tag = <<7, 10, 22, 180, 107, 77, 65, 68, 247, 155, 221, 157, 208, 74, 40, 124>>

(***************************************************************************)
(* C10.  When CMAC(key) is about to return and ever after its return is    *)
(* made: L is the encryption of the zero block under the key, K1 is L      *)
(* doubled and K2 is K1 doubled; the second doubling left K1 alone; the    *)
(* zero block is still zero; and calls of the MAC function exist only      *)
(* after both doublings.                                                   *)
(***************************************************************************)
C10_SubkeyDerivation ==
  /\ pc = "return" => L = AESEncryptBlock(KeyExpansion(key), Zeros)
  /\ pc \in {"return", "prepared"} =>
       /\ SameSeq(heap["padding"], Double128(L))
       /\ SameSeq(heap["padding2"], Double128(Double128(L)))
       /\ heap["zeroBlock"] = Zeros
  /\ pc = "slice" => SameSeq(heap["padding"], Double128(L)) /\ heap["padding2"] = <<>>
  /\ calls # <<>> => pc = "prepared"

C10_Witness ==
  /\ pc = "return"
  /\ key = Key256
  /\ backend = "webCrypto"
  /\ L[1] >= 128
  /\ heap["padding"][16] = XorRef((2 * L[16]) % 256, 135)
  /\ heap["padding2"] # heap["padding"]
====
